---- MODULE Spec2Model ----
(***************************************************************************)
(* A model of jishaku/features/root_command.py: the root command `jsk`    *)
(* (status brief), `jsk hide` / `jsk show`, `jsk tasks` and `jsk cancel`, *)
(* together with the helper natural_size.                                  *)
(*                                                                         *)
(* A CommandTask (index, ctx, task) is the record [index, id]: `index` is  *)
(* the number the command prints and looks up, `id` stands for the         *)
(* identity of the ctx / asyncio task pair.  root_command.py itself never  *)
(* appends to self.tasks, so the list a command finds is an input: any     *)
(* list of distinct tasks, whose indices are not assumed to be distinct.   *)
(*                                                                         *)
(* Numbers: a latency is an integer number of microseconds, a value        *)
(* printed with two decimals is the integer number of its hundredths.      *)
(***************************************************************************)
EXTENDS Integers, Sequences, FiniteSets, TLC

VARIABLES
    tasks,      \* self.tasks: the sequence of CommandTasks
    hidden,     \* self.jsk.hidden
    cancels,    \* per task id: how many times task.task.cancel() was called
    removed,    \* ids of the tasks that left self.tasks
    call,       \* the latest invocation: command and arguments
    pre,        \* self.tasks and self.jsk.hidden when that invocation began
    out         \* what that invocation did: message sent, exception, cancels

vars == <<tasks, hidden, cancels, removed, call, pre, out>>

----------------------------------------------------------------------------
\* Bounds of the model

MaxTasks == 3
MaxIndex == 2

TaskIds == 1..MaxTasks
TaskIndices == 1..MaxIndex

----------------------------------------------------------------------------
\* Values

OwnerId == "924589827586928730"
OtherId == "111111111111111111"
Authors == {OwnerId, OtherId}

NoTask == [index |-> 0, id |-> 0]

IntIndex(n) == [kind |-> "int", val |-> n, lit |-> ""]
StrIndex(s) == [kind |-> "str", val |-> 0, lit |-> s]
NoIndex == StrIndex("")

\* what a user can pass as `index`: typing.Union[int, str]
IndexArgs ==
    {IntIndex(n) : n \in (-1)..(MaxIndex + 1)} \cup {StrIndex("~"), StrIndex("all")}

NoMem == [rss |-> 0, vms |-> 0, uss |-> 0]

\* byte counts psutil may report
SizeSamples == {0, 1023, 1024, 12345678}

\* proc.memory_full_info(): a live process has resident pages, and
\* uss <= rss <= vms
MemSamples ==
    {m \in [rss : SizeSamples, vms : SizeSamples, uss : SizeSamples] :
        m.rss > 0 /\ m.uss <= m.rss /\ m.rss <= m.vms}

\* bot.latency, in microseconds
LatencySamples == {50000, 123456}

Message(text) == [text |-> text, task |-> NoTask, count |-> 0, footer |-> 0]

NoMessage == Message("")

NoOut ==
    [sent |-> NoMessage, raised |-> "", cancelled |-> <<>>, lines |-> <<>>,
     memory |-> <<>>]

NoCall ==
    [op |-> "", author |-> "", index |-> NoIndex, latency |-> 0,
     psutil |-> FALSE, mem |-> NoMem]

----------------------------------------------------------------------------
\* Python and library helpers

RECURSIVE Pow(_, _)
Pow(b, e) == IF e = 0 THEN 1 ELSE b * Pow(b, e - 1)

\* round(num / den) to an integer, ties to even, for num >= 0 and den > 0
RoundDiv(num, den) ==
    LET q == num \div den
        r == num % den
    IN  IF 2 * r < den THEN q
        ELSE IF 2 * r > den THEN q + 1
        ELSE IF q % 2 = 0 THEN q ELSE q + 1

\* int(math.log(n, 1024)) for n >= 1
RECURSIVE IntLog1024(_)
IntLog1024(n) == IF n < 1024 THEN 0 ELSE 1 + IntLog1024(n \div 1024)

units == <<"B", "KiB", "MiB", "GiB", "TiB", "PiB", "EiB", "ZiB", "YiB">>

\* f"{x:.2f}" of size / 1024 ** power, as hundredths
Format2f(size, power) ==
    LET d == Pow(1024, power)
    IN  (size \div d) * 100 + RoundDiv((size % d) * 100, d)

natural_size(size_in_bytes) ==
    IF size_in_bytes <= 0
    THEN [raised |-> "ValueError", hundredths |-> 0, unit |-> ""]
    ELSE LET power == IntLog1024(size_in_bytes)
         IN  IF power + 1 > Len(units)
             THEN [raised |-> "IndexError", hundredths |-> 0, unit |-> ""]
             ELSE [raised |-> "",
                   hundredths |-> Format2f(size_in_bytes, power),
                   unit |-> units[power + 1]]

\* round(self.bot.latency * 100, 2), as hundredths
footer_latency(latency_us) == RoundDiv(latency_us * 100 * 100, 1000000)

Positions(seq, idx) == {i \in 1..Len(seq) : seq[i].index = idx}

Min(S) == CHOOSE x \in S : \A y \in S : x <= y
Max(S) == CHOOSE x \in S : \A y \in S : x >= y

WithoutAt(seq, k) == SubSeq(seq, 1, k - 1) \o SubSeq(seq, k + 1, Len(seq))

utils_get_last(seq, idx) ==
    IF Positions(seq, idx) = {} THEN NoTask ELSE seq[Max(Positions(seq, idx))]

utils_get_any(seq, idx) ==
    IF Positions(seq, idx) # {} THEN seq[Min(Positions(seq, idx))]
    ELSE IF seq # <<>> THEN seq[1] ELSE NoTask

\* discord.utils.get(self.tasks, index=index): the first match, else None
utils_get(seq, idx) ==
    IF Positions(seq, idx) = {} THEN NoTask ELSE seq[Min(Positions(seq, idx))]

list_remove_nothing(seq, x) == seq

\* self.tasks.remove(task): drops the first element equal to task
list_remove(seq, x) ==
    LET eq == {i \in 1..Len(seq) : seq[i] = x}
    IN  IF eq = {} THEN seq ELSE WithoutAt(seq, Min(eq))

list_pop_first(seq) == [item |-> seq[1], rest |-> Tail(seq)]

\* self.tasks.pop(): takes the last element
list_pop(seq) ==
    [item |-> seq[Len(seq)], rest |-> SubSeq(seq, 1, Len(seq) - 1)]

cancel_all_but_first(seq) == Tail(seq)

\* for task in self.tasks: task.task.cancel()
cancel_all(seq) == seq

task_lines_reversed(seq) == [i \in 1..Len(seq) |-> seq[Len(seq) + 1 - i].index]

\* paginator.add_line(f"{task.index}: ...") for each task; a line is its index
task_lines(seq) == [i \in 1..Len(seq) |-> seq[i].index]

everyone_authorised(author) == TRUE

\* ctx.author.id != 924589827586928730 is the early return
authorised(author) == author = OwnerId

Ids(seq) == {seq[i].id : i \in 1..Len(seq)}

Count(seq, id) == Cardinality({i \in 1..Len(seq) : seq[i].id = id})

\* the effect of the cancel() calls of `done` on the tasks' cancel counts
Cancelled(counts, done) == [t \in TaskIds |-> counts[t] + Count(done, t)]

----------------------------------------------------------------------------
\* Initial state

InitLists ==
    UNION {{[i \in 1..n |-> [index |-> f[i], id |-> i]] : f \in [1..n -> TaskIndices]} :
              n \in 0..MaxTasks}

Init ==
    /\ tasks \in InitLists
    /\ hidden \in BOOLEAN
    /\ cancels = [t \in TaskIds |-> 0]
    /\ removed = {}
    /\ call = NoCall
    /\ pre = [tasks |-> tasks, hidden |-> hidden]
    /\ out = NoOut

----------------------------------------------------------------------------
\* Commands

Begin(c) ==
    /\ call' = c
    /\ pre' = [tasks |-> tasks, hidden |-> hidden]

\* the task list and the tasks after an invocation that called cancel() on
\* `done` and left `rest` in the list
Effect(rest, done) ==
    /\ tasks' = rest
    /\ cancels' = Cancelled(cancels, done)
    /\ removed' = removed \cup (Ids(tasks) \ Ids(rest))

jsk_hide_always ==
    /\ Begin([NoCall EXCEPT !.op = "hide"])
    /\ hidden' = TRUE
    /\ out' = [NoOut EXCEPT !.sent = Message("Jishaku is now hidden.")]
    /\ UNCHANGED <<tasks, cancels, removed>>

jsk_hide ==
    /\ Begin([NoCall EXCEPT !.op = "hide"])
    /\ IF hidden
       THEN /\ out' = [NoOut EXCEPT !.sent = Message("Jishaku is already hidden.")]
            /\ hidden' = hidden
       ELSE /\ hidden' = TRUE
            /\ out' = [NoOut EXCEPT !.sent = Message("Jishaku is now hidden.")]
    /\ UNCHANGED <<tasks, cancels, removed>>

jsk_show ==
    /\ Begin([NoCall EXCEPT !.op = "show"])
    /\ IF ~hidden
       THEN /\ out' = [NoOut EXCEPT !.sent = Message("Jishaku is already visible.")]
            /\ hidden' = hidden
       ELSE /\ hidden' = FALSE
            /\ out' = [NoOut EXCEPT !.sent = Message("Jishaku is now visible.")]
    /\ UNCHANGED <<tasks, cancels, removed>>

jsk_tasks ==
    /\ Begin([NoCall EXCEPT !.op = "tasks"])
    /\ IF tasks = <<>>
       THEN out' = [NoOut EXCEPT !.sent = Message("No currently running tasks.")]
       ELSE out' = [NoOut EXCEPT !.sent = Message("paginator"),
                                 !.lines = task_lines(tasks)]
    /\ UNCHANGED <<tasks, hidden, cancels, removed>>

jsk_cancel_body(author, index) ==
    IF ~authorised(author)
    THEN /\ out' = NoOut
         /\ Effect(tasks, <<>>)
    ELSE IF tasks = <<>>
    THEN /\ out' = [NoOut EXCEPT !.sent = Message("No tasks to cancel.")]
         /\ Effect(tasks, <<>>)
    ELSE IF index = StrIndex("~")
    THEN LET task_count == Len(tasks)
         IN  /\ out' = [NoOut EXCEPT
                           !.sent = [Message("Cancelled N tasks.") EXCEPT
                                        !.count = task_count],
                           !.cancelled = cancel_all(tasks)]
             /\ Effect(<<>>, cancel_all(tasks))
    ELSE IF index.kind = "str"
    THEN /\ out' = [NoOut EXCEPT !.raised = "BadArgument"]
         /\ Effect(tasks, <<>>)
    ELSE IF index.val = -1
    THEN LET popped == list_pop(tasks)
         IN  /\ out' = [NoOut EXCEPT
                           !.sent = [Message("Cancelled task") EXCEPT
                                        !.task = popped.item],
                           !.cancelled = <<popped.item>>]
             /\ Effect(popped.rest, <<popped.item>>)
    ELSE LET task == utils_get(tasks, index.val)
         IN  IF task # NoTask
             THEN /\ out' = [NoOut EXCEPT
                                !.sent = [Message("Cancelled task") EXCEPT
                                             !.task = task],
                                !.cancelled = <<task>>]
                  /\ Effect(list_remove(tasks, task), <<task>>)
             ELSE /\ out' = [NoOut EXCEPT !.sent = Message("Unknown task.")]
                  /\ Effect(tasks, <<>>)

jsk_cancel ==
    \E author \in Authors, index \in IndexArgs :
        /\ Begin([NoCall EXCEPT !.op = "cancel", !.author = author, !.index = index])
        /\ jsk_cancel_body(author, index)
        /\ UNCHANGED hidden

\* the memory line of the summary: natural_size of rss, vms and uss in turn
memory_summary(mem) == <<natural_size(mem.rss), natural_size(mem.vms), natural_size(mem.uss)>>

FirstRaised(sizes) ==
    LET bad == {i \in 1..Len(sizes) : sizes[i].raised # ""}
    IN  IF bad = {} THEN "" ELSE sizes[Min(bad)].raised

jsk ==
    \E latency \in LatencySamples, psutil \in BOOLEAN, mem \in MemSamples \cup {NoMem} :
        /\ psutil <=> mem # NoMem
        /\ Begin([NoCall EXCEPT !.op = "jsk", !.latency = latency,
                                !.psutil = psutil, !.mem = mem])
        /\ LET sizes == IF psutil THEN memory_summary(mem) ELSE <<>>
           IN  IF FirstRaised(sizes) # ""
               THEN out' = [NoOut EXCEPT !.raised = FirstRaised(sizes)]
               ELSE out' = [NoOut EXCEPT
                               !.sent = [Message("embed") EXCEPT
                                            !.footer = footer_latency(latency)],
                               !.memory = sizes]
        /\ UNCHANGED <<tasks, hidden, cancels, removed>>

Next ==
    \/ jsk
    \/ jsk_hide
    \/ jsk_show
    \/ jsk_tasks
    \/ jsk_cancel

Spec == Init /\ [][Next]_vars

----------------------------------------------------------------------------
\* Properties

OwnerCancel == call.op = "cancel" /\ call.author = OwnerId

IntCancel ==
    /\ OwnerCancel
    /\ call.index.kind = "int"
    /\ call.index.val # -1
    /\ pre.tasks # <<>>

Matches == Positions(pre.tasks, call.index.val)

\* C1: jsk_cancel by the owner with an integer index other than -1 that some
\* task of the non-empty list carries removes the first task with that index
\* and no other, keeps the others in order, calls cancel on that task alone
\* and replies 'Cancelled task' naming it.
C1_CancelByIndex ==
    (IntCancel /\ Matches # {}) =>
        LET k == Min(Matches)
        IN  /\ tasks = WithoutAt(pre.tasks, k)
            /\ out.cancelled = <<pre.tasks[k]>>
            /\ out.sent = [Message("Cancelled task") EXCEPT !.task = pre.tasks[k]]
            /\ out.raised = ""

C1_Witness ==
    /\ IntCancel
    /\ Cardinality(Matches) >= 2
    /\ Len(pre.tasks) = 3
    /\ Len(tasks) = 2
    /\ out.sent.task = pre.tasks[Min(Matches)]

LastCancel ==
    /\ OwnerCancel
    /\ call.index = IntIndex(-1)
    /\ pre.tasks # <<>>

\* C2: jsk_cancel by the owner with index -1 on a non-empty list removes the
\* last task: the list loses its final element only, cancel is called on that
\* task alone and the reply names it.
C2_CancelLast ==
    LastCancel =>
        LET n == Len(pre.tasks)
        IN  /\ tasks = SubSeq(pre.tasks, 1, n - 1)
            /\ out.cancelled = <<pre.tasks[n]>>
            /\ out.sent = [Message("Cancelled task") EXCEPT !.task = pre.tasks[n]]

C2_Witness ==
    /\ LastCancel
    /\ Len(pre.tasks) >= 2
    /\ Len(tasks) = Len(pre.tasks) - 1
    /\ out.sent.task = pre.tasks[Len(pre.tasks)]

AllCancel ==
    /\ OwnerCancel
    /\ call.index = StrIndex("~")
    /\ pre.tasks # <<>>

\* C3: jsk_cancel by the owner with index '~' on a non-empty list calls
\* cancel once on every task of the list and on nothing else, empties the
\* list, and replies 'Cancelled N tasks.' with N the former length.
C3_CancelAll ==
    AllCancel =>
        /\ tasks = <<>>
        /\ \A t \in Ids(pre.tasks) : Count(out.cancelled, t) = 1
        /\ Ids(out.cancelled) \subseteq Ids(pre.tasks)
        /\ out.sent = [Message("Cancelled N tasks.") EXCEPT !.count = Len(pre.tasks)]

C3_Witness ==
    /\ AllCancel
    /\ Len(pre.tasks) >= 2
    /\ tasks = <<>>
    /\ out.sent.count = Len(pre.tasks)

\* C4: jsk_cancel by the owner with an integer index other than -1 that no
\* task of the non-empty list carries replies 'Unknown task.', leaves the
\* list as it was and calls cancel on no task.
C4_UnknownTask ==
    (IntCancel /\ Matches = {}) =>
        /\ out.sent = Message("Unknown task.")
        /\ tasks = pre.tasks
        /\ out.cancelled = <<>>

C4_Witness ==
    /\ IntCancel
    /\ Matches = {}
    /\ Len(pre.tasks) >= 2
    /\ out.sent.text = "Unknown task."

\* C5: jsk_hide / jsk_show reply 'already hidden' / 'already visible' and
\* leave the flag alone exactly when the flag already had the requested
\* value; otherwise they set it and reply 'now hidden' / 'now visible'.  So
\* after an invocation the flag is true iff the invocation was jsk_hide.
C5_HideShow ==
    (call.op \in {"hide", "show"}) =>
        LET want == (call.op = "hide")
            already == IF want THEN "Jishaku is already hidden."
                       ELSE "Jishaku is already visible."
            now == IF want THEN "Jishaku is now hidden."
                   ELSE "Jishaku is now visible."
        IN  /\ hidden = want
            /\ (out.sent = Message(already)) <=> (pre.hidden = want)
            /\ (out.sent = Message(now)) <=> (pre.hidden # want)

C5_Witness ==
    /\ call.op = "hide"
    /\ pre.hidden
    /\ hidden
    /\ out.sent.text = "Jishaku is already hidden."

\* C6: jsk_tasks changes nothing and cancels nothing; on an empty list it
\* replies 'No currently running tasks.', otherwise it emits one line per
\* task, in list order, each beginning with the task's index.
C6_TasksReadOnly ==
    (call.op = "tasks") =>
        /\ tasks = pre.tasks
        /\ out.cancelled = <<>>
        /\ IF pre.tasks = <<>>
           THEN out.sent = Message("No currently running tasks.") /\ out.lines = <<>>
           ELSE /\ Len(out.lines) = Len(pre.tasks)
                /\ \A i \in 1..Len(pre.tasks) : out.lines[i] = pre.tasks[i].index

C6_Witness ==
    /\ call.op = "tasks"
    /\ Len(pre.tasks) >= 2
    /\ pre.tasks[1].index # pre.tasks[2].index
    /\ Len(out.lines) = Len(pre.tasks)

\* the largest p with 1024^p <= n; 1024^4 exceeds every byte count of the model
ExpectedPower(n) == Max({0} \cup {p \in 0..3 : Pow(1024, p) <= n})

\* C7: natural_size returns, for every byte count n >= 0 the status brief
\* hands it, a result (no exception) whose unit is units[p] with p the largest
\* exponent such that 1024^p <= n (p = 0 below 1024).
C7_NaturalSizeTotal ==
    (call.op = "jsk" /\ call.psutil) =>
        /\ out.raised = ""
        /\ Len(out.memory) = 3
        /\ out.memory[1].unit = units[ExpectedPower(call.mem.rss) + 1]
        /\ out.memory[2].unit = units[ExpectedPower(call.mem.vms) + 1]
        /\ out.memory[3].unit = units[ExpectedPower(call.mem.uss) + 1]

\* C8: the footer of the status brief shows bot.latency in milliseconds:
\* the latency in seconds times 1000, rounded to two decimals.
C8_FooterMilliseconds ==
    (call.op = "jsk" /\ out.raised = "") =>
        out.sent.footer = RoundDiv(call.latency, 10)

\* C9: the tasks on which jsk_cancel called cancel are exactly the tasks it
\* removed from the list: no task still in the list was cancelled, none was
\* removed without being cancelled, none was cancelled more than once.
C9_CancelledIffRemoved ==
    /\ {t \in TaskIds : cancels[t] > 0} = removed
    /\ \A t \in TaskIds : cancels[t] <= 1
    /\ \A i \in 1..Len(tasks) : cancels[tasks[i].id] = 0
    /\ removed \cap Ids(tasks) = {}

C9_Witness ==
    /\ Cardinality(removed) >= 2
    /\ tasks # <<>>
    /\ \A t \in removed : cancels[t] = 1

\* C10: jsk_cancel by anyone but the owner does nothing, whatever the index
\* and the list: the list is unchanged, cancel is called on no task, no
\* message is sent and nothing is raised.
C10_NonOwnerNoEffect ==
    (call.op = "cancel" /\ call.author # OwnerId) =>
        /\ tasks = pre.tasks
        /\ out.cancelled = <<>>
        /\ out.sent = NoMessage
        /\ out.raised = ""

C10_Witness ==
    /\ call.op = "cancel"
    /\ call.author = OtherId
    /\ call.index = StrIndex("~")
    /\ Len(tasks) >= 2
    /\ out = NoOut

====
